---- MODULE Spec2Model ----
(***************************************************************************)
(* State-machine model of the passkey (WebAuthn) registration and login    *)
(* ceremonies and the single-use token routes of SLH_L2-WebAuth            *)
(* (lab02/src), and of the post reactions of handlers_auth.                *)
(*                                                                         *)
(* Every HTTP request runs as a task.  A handler is cut into steps at the  *)
(* places where it takes a shared lock or hands control to the verifier    *)
(* or the mailer; a task's position is pc[t].  Between two steps of one    *)
(* task any step of another task may run.                                  *)
(*                                                                         *)
(* The variable `scenario` fixes the environment of a run: how many tasks  *)
(* the runtime has in flight, which addresses clients use, whether calls   *)
(* to the database, the token store, the mailer and the renderer can fail, *)
(* and whether clients send malformed payloads.  It never changes.         *)
(*                                                                         *)
(* The variables `ceremony` and `tokenLog` are history: they record who    *)
(* began a ceremony or was issued a token and how often it was used; no    *)
(* action reads them.                                                      *)
(*                                                                         *)
(* Fresh random values (state identifiers, challenges, tokens) are drawn   *)
(* from counters: the n-th value is n, never drawn twice.  A passkey is    *)
(* named by the challenge of the ceremony that created it.                 *)
(***************************************************************************)
EXTENDS Integers, FiniteSets, TLC

\* ------------------------------------------------------------- bounds ----
MaxIds == 2        \* ceremonies (state identifiers / challenges) ever begun
MaxTokens == 1     \* tokens ever generated
MaxPosts == 2      \* posts ever created

Ids == 1..MaxIds
Tokens == 1..MaxTokens
PostIds == 1..MaxPosts
Emails == {"a", "b"}           \* syntactically valid addresses
Tasks == {"t1", "t2"}          \* request tasks of the runtime
NoEmail == "none"
Missing == "missing"           \* the JSON field is absent
BadEmail == "bad"              \* fails validate_email()
Free == "free"                 \* a lock nobody holds

VARIABLES
  users,                 \* database::user  : email -> record
  tokens,                \* database::token : token -> email
  nextTok,               \* next fresh token
  REGISTRATION_STATES,   \* state id -> StoredRegistrationState
  AUTHENTICATION_STATES, \* state id -> TimedStoredState<PasskeyAuthentication>
  CREDENTIAL_STORE,      \* email -> Passkey (0: no entry)
  locks,                 \* writer of each RwLock, or Free
  nextId,                \* next fresh uuid / challenge
  session,               \* emails with an authenticated session
  POSTS,                 \* handlers_auth: post id -> Post (0 posts at start)
  scenario,              \* the environment: tasks scheduled, addresses in use, faults
  pc, req, loc, res,     \* per task: position, payload, locals, response
  ceremony,              \* history: per state id, who began it and how it was used
  tokenLog               \* history: per token, issuing email and consumptions

dbVars == <<users, tokens, nextTok>>
mapVars == <<REGISTRATION_STATES, AUTHENTICATION_STATES, CREDENTIAL_STORE>>
histVars == <<ceremony, tokenLog>>
vars == <<users, tokens, nextTok, REGISTRATION_STATES, AUTHENTICATION_STATES,
          CREDENTIAL_STORE, locks, nextId, session, POSTS, scenario, pc, req, loc, res,
          ceremony, tokenLog>>

\* ------------------------------------------------------ record shapes ----
NoUser == [exists |-> FALSE, verified |-> FALSE, passkey |-> 0]
NoRegState == [present |-> FALSE, challenge |-> 0]
NoAuthState == [present |-> FALSE, challenge |-> 0, cred |-> 0, server_challenge |-> 0]
NoCeremony == [kind |-> "none", email |-> NoEmail, reset |-> FALSE, challenge |-> 0,
               taken |-> 0, completed |-> 0]
NoTokenLog == [email |-> NoEmail, consumed |-> 0]
NoPost == [present |-> FALSE, likes |-> 0]
NoReq == [handler |-> "none", email |-> NoEmail, reset |-> FALSE, sid |-> 0,
          chal |-> 0, key |-> 0, token |-> 0, post_id |-> 0, action |-> ""]
NoLoc == [sid |-> 0, chal |-> 0, passkey |-> 0, token |-> 0]
NoRes == [status |-> 0, msg |-> "", sid |-> 0, chal |-> 0, email |-> NoEmail,
          token |-> 0, mailed |-> FALSE, post_id |-> 0]

\* A response: status and text; for a begin the state id and challenge; for a
\* token route the email the token resolved to; and what the request handed to
\* the outside: the token it generated and whether send_mail took the mail.
Response(status, msg) == [NoRes EXCEPT !.status = status, !.msg = msg]
Panic == Response(0, "panic")

Cap(n) == IF n > 2 THEN 2 ELSE n

\* The task returns `response`; payload and response stay readable until the
\* response is delivered.
Reply(t, payload, response) ==
  /\ pc' = [pc EXCEPT ![t] = "done"]
  /\ req' = [req EXCEPT ![t] = payload]
  /\ loc' = [loc EXCEPT ![t] = NoLoc]
  /\ res' = [res EXCEPT ![t] = response]

\* The task moves on to step `label` with locals `l`.
Goto(t, label, payload, l) ==
  /\ pc' = [pc EXCEPT ![t] = label]
  /\ req' = [req EXCEPT ![t] = payload]
  /\ loc' = [loc EXCEPT ![t] = l]
  /\ res' = [res EXCEPT ![t] = NoRes]

Accepting(t) == t \in scenario.tasks /\ pc[t] = "idle"

\* The addresses clients submit, and the values an email field can take.
Clients == scenario.emails
EmailField == Clients \cup (IF scenario.malformed THEN {Missing, BadEmail} ELSE {})

\* The outcomes of a call that can fail (database, token store, mailer, renderer).
Outcome == IF scenario.faults THEN BOOLEAN ELSE {TRUE}

\* The 400 of a payload whose email is absent or fails validate_email().
EmailError(email) ==
  IF email = Missing THEN "Email is required" ELSE "Invalid email format"

\* An RwLock can be taken by t when no other task holds it for writing.
CanLock(l, t) == locks[l] \in {Free, t}

\* --------------------------------------------- database (crate::database) --
exists(email, dbOk) ==
  IF ~dbOk THEN "Err"
  ELSE IF email \in Emails /\ users[email].exists THEN "Ok(true)" ELSE "Ok(false)"

create(db, email) ==
  [db EXCEPT ![email] = [exists |-> TRUE, verified |-> FALSE, passkey |-> 0]]

set_passkey(db, email, passkey) ==
  [db EXCEPT ![email].passkey = passkey]

get_passkey(email) ==
  IF users[email].exists THEN users[email].passkey ELSE 0

verify(db, email) ==
  [db EXCEPT ![email].verified = TRUE]

\* ----------------------------------------------- webauthn-rs (the verifier) --
\* finish_passkey_registration: the attestation must answer the challenge of
\* the state it is checked against; the passkey it yields is the one created
\* for that challenge.
finish_passkey_registration(response_challenge, registration_state) ==
  IF response_challenge = registration_state.challenge
    THEN registration_state.challenge ELSE 0

\* finish_passkey_authentication: the assertion must answer the state's
\* challenge and be signed by the credential the state was started for.
finish_passkey_authentication(response, state) ==
  /\ response.challenge = state.challenge
  /\ response.key = state.cred

\* -------------------------------------------------------- register_begin --
\* Seeded fault: a match that also lets (false, Ok(true)) through.
register_begin_match_any_user(reset_mode, ex) ==
  ex # "Err"

\* The match on (reset_mode, exists(email)) of register_begin.
register_begin_match(reset_mode, ex) ==
  \/ ~reset_mode /\ ex = "Ok(false)"
  \/ reset_mode /\ ex = "Ok(true)"
  \/ reset_mode /\ ex = "Ok(false)"

\* Lines 45-79: validation, the mode check, begin_registration and the insert
\* of the new state under a fresh identifier.
register_begin(t) ==
  /\ Accepting(t)
  /\ \E email \in EmailField, reset_mode \in BOOLEAN, dbOk \in Outcome :
       LET bare == [NoReq EXCEPT !.handler = "register_begin"]
           payload == [bare EXCEPT !.email = email, !.reset = reset_mode]
       IN
       IF email \notin Emails THEN
         /\ ~reset_mode /\ dbOk      \* neither is looked at
         /\ Reply(t, bare, Response(400, EmailError(email)))
         /\ UNCHANGED <<REGISTRATION_STATES, nextId, ceremony>>
       ELSE IF ~register_begin_match(reset_mode, exists(email, dbOk)) THEN
         /\ Reply(t, payload, Response(400, "Invalid registration request"))
         /\ UNCHANGED <<REGISTRATION_STATES, nextId, ceremony>>
       ELSE
         /\ nextId <= MaxIds
         /\ CanLock("REGISTRATION_STATES", t)
         /\ REGISTRATION_STATES' = [REGISTRATION_STATES EXCEPT
               ![nextId] = [present |-> TRUE, challenge |-> nextId]]
         /\ ceremony' = [ceremony EXCEPT ![nextId] =
               [NoCeremony EXCEPT !.kind = "registration", !.email = email,
                                  !.reset = reset_mode, !.challenge = nextId]]
         /\ nextId' = nextId + 1
         /\ Goto(t, "rb_cache", payload, [NoLoc EXCEPT !.sid = nextId, !.chal = nextId])
  /\ UNCHANGED <<dbVars, AUTHENTICATION_STATES, CREDENTIAL_STORE, locks, session,
                 scenario, POSTS, tokenLog>>

\* Lines 81-86: drop the cache entry of the email and answer.
register_begin_cache(t) ==
  /\ pc[t] = "rb_cache"
  /\ CanLock("CREDENTIAL_STORE", t)
  /\ CREDENTIAL_STORE' = [CREDENTIAL_STORE EXCEPT ![req[t].email] = 0]
  /\ Reply(t, req[t], [Response(200, "publicKey") EXCEPT !.sid = loc[t].sid,
                                                           !.chal = loc[t].chal])
  /\ UNCHANGED <<dbVars, REGISTRATION_STATES, AUTHENTICATION_STATES, locks, nextId,
                 session, scenario, POSTS, histVars>>

\* ----------------------------------------------------- register_complete --
\* The match on (reset_mode, exists(email)) of register_complete.
register_complete_match(reset_mode, ex) ==
  IF ~reset_mode /\ ex = "Ok(false)" THEN "create"
  ELSE IF reset_mode /\ ex = "Ok(true)" THEN "reset"
  ELSE "reject"

\* The first missing or malformed field of the payload, in the order checked.
Forms == {"ok", "no_first_name", "no_last_name", "bad_first_name", "bad_last_name",
          "no_state_id", "no_response", "bad_response"}

FormField(forms) == IF scenario.malformed THEN forms ELSE {"ok"}

\* Which database call of the request fails, if any.
DbFaults == IF scenario.faults THEN {"ok", "read fails", "write fails"} ELSE {"ok"}

FormError(form) ==
  CASE form = "no_first_name" -> "First name is required"
    [] form = "no_last_name" -> "Last name is required"
    [] form = "bad_first_name" -> "Invalid first name"
    [] form = "bad_last_name" -> "Invalid last name"
    [] form = "no_state_id" -> "State ID is required"
    [] form = "no_response" -> "Response is required"
    [] OTHER -> "Invalid response format"

\* token::generate(email): a fresh token is recorded for the email.
generate(email) ==
  /\ nextTok <= MaxTokens
  /\ tokens' = [tokens EXCEPT ![nextTok] = email]
  /\ tokenLog' = [tokenLog EXCEPT ![nextTok] = [email |-> email, consumed |-> 0]]
  /\ nextTok' = nextTok + 1

\* Lines 93-154: validation, then the user is created (new account) or the
\* cached passkey is written to the user (reset), before the state is looked up.
register_complete(t) ==
  /\ Accepting(t)
  /\ \E email \in EmailField, form \in FormField(Forms), reset_mode \in BOOLEAN,
        state_id \in Ids, challenge \in Ids, db \in DbFaults :
       IF email \notin Emails \/ form # "ok" THEN
         \* nothing else of the payload is looked at
         /\ ~reset_mode /\ state_id = 1 /\ challenge = 1 /\ db = "ok"
         /\ email \in Emails \/ form = "ok"
         /\ Reply(t, [NoReq EXCEPT !.handler = "register_complete"],
                  Response(400, IF email \notin Emails THEN EmailError(email)
                                                       ELSE FormError(form)))
         /\ UNCHANGED users
       ELSE
       LET payload == [NoReq EXCEPT !.handler = "register_complete", !.email = email,
                                    !.reset = reset_mode, !.sid = state_id,
                                    !.chal = challenge]
           branch == register_complete_match(reset_mode, exists(email, db # "read fails"))
           writeOk == db # "write fails"
       IN
       IF branch = "create" THEN
         IF writeOk
           THEN users' = create(users, email) /\ Goto(t, "rc_remove", payload, NoLoc)
           ELSE Reply(t, payload, Response(500, "Failed to create user")) /\ UNCHANGED users
       ELSE IF branch = "reset" THEN
         /\ CanLock("CREDENTIAL_STORE", t)
         /\ IF CREDENTIAL_STORE[email] = 0 THEN
              \* get(email).unwrap() on a missing entry
              Reply(t, payload, Panic) /\ UNCHANGED users
            ELSE IF writeOk THEN
              /\ users' = set_passkey(users, email, CREDENTIAL_STORE[email])
              /\ Goto(t, "rc_remove", payload, NoLoc)
            ELSE
              Reply(t, payload, Response(500, "set_passkey failed")) /\ UNCHANGED users
       ELSE
         Reply(t, payload, Response(500, "Failed to check user existence")) /\ UNCHANGED users
  /\ UNCHANGED <<tokens, nextTok, mapVars, locks, nextId, session, scenario, POSTS, histVars>>

\* Seeded fault: the state is read with get() and left in the map.
get_registration_state(states, state_id) ==
  states

\* HashMap::remove on the registration map: the entry is gone afterwards.
remove_registration_state(states, state_id) ==
  [states EXCEPT ![state_id] = NoRegState]

\* Lines 156-161: the state is looked up and removed under one write lock.
register_complete_remove(t) ==
  /\ pc[t] = "rc_remove"
  /\ CanLock("REGISTRATION_STATES", t)
  /\ LET stored_state == REGISTRATION_STATES[req[t].sid] IN
       IF stored_state.present THEN
         /\ REGISTRATION_STATES' = remove_registration_state(REGISTRATION_STATES, req[t].sid)
         /\ ceremony' = [ceremony EXCEPT ![req[t].sid].taken = Cap(@ + 1)]
         /\ Goto(t, "rc_verify", req[t], [NoLoc EXCEPT !.sid = req[t].sid,
                                                       !.chal = stored_state.challenge])
       ELSE
         /\ Reply(t, req[t], Response(400, "Invalid registration session"))
         /\ UNCHANGED <<REGISTRATION_STATES, ceremony>>
  /\ UNCHANGED <<dbVars, AUTHENTICATION_STATES, CREDENTIAL_STORE, locks, nextId, session,
                 scenario, POSTS, tokenLog>>

\* webauthn.rs 72-74: the attestation is verified against the removed state.
register_complete_verify(t) ==
  /\ pc[t] = "rc_verify"
  /\ LET passkey == finish_passkey_registration(req[t].chal, [challenge |-> loc[t].chal]) IN
       IF passkey = 0
         THEN Reply(t, req[t], Response(400, "Failed to end registration"))
         ELSE Goto(t, "rc_store", req[t], [loc[t] EXCEPT !.passkey = passkey])
  /\ UNCHANGED <<dbVars, mapVars, locks, nextId, session, scenario, POSTS, histVars>>

\* Seeded fault: a token or mail failure is returned to the caller.
register_complete_status_mail_fatal(genOk, mailOk) ==
  IF genOk /\ mailOk THEN 201 ELSE 500

\* Lines 167-183: the status once complete_registration has succeeded; neither
\* the result of generate nor the result of send_mail reaches the caller.
register_complete_status(genOk, mailOk) ==
  201

\* webauthn.rs 76-79 and lines 165-167: under the write lock of the cache the
\* passkey is cached and then persisted; on success a token is generated.
register_complete_store(t) ==
  /\ pc[t] = "rc_store"
  /\ CanLock("CREDENTIAL_STORE", t)
  /\ CREDENTIAL_STORE' = [CREDENTIAL_STORE EXCEPT ![req[t].email] = loc[t].passkey]
  /\ \E writeOk \in Outcome, genOk \in Outcome :
       IF ~(writeOk /\ users[req[t].email].exists) THEN
         /\ Reply(t, req[t], Response(400, "Failed to set passkey for user"))
         /\ UNCHANGED <<users, tokens, nextTok, histVars>>
       ELSE
         /\ users' = set_passkey(users, req[t].email, loc[t].passkey)
         /\ IF genOk THEN
              /\ generate(req[t].email)
              /\ ceremony' = [ceremony EXCEPT ![loc[t].sid].completed = Cap(@ + 1)]
              /\ Goto(t, "rc_mail", req[t], [loc[t] EXCEPT !.token = nextTok])
            ELSE
              /\ ceremony' = [ceremony EXCEPT ![loc[t].sid].completed = Cap(@ + 1)]
              /\ Reply(t, req[t], Response(register_complete_status(FALSE, TRUE), "Created"))
              /\ UNCHANGED <<tokens, nextTok, tokenLog>>
  /\ UNCHANGED <<REGISTRATION_STATES, AUTHENTICATION_STATES, locks, nextId,
                 session, scenario, POSTS>>

\* Lines 168-183: the verification mail; a failure is only logged.
register_complete_mail(t) ==
  /\ pc[t] = "rc_mail"
  /\ \E mailOk \in Outcome :
       Reply(t, req[t], [Response(register_complete_status(TRUE, mailOk), "Created")
                           EXCEPT !.token = loc[t].token, !.mailed = mailOk])
  /\ UNCHANGED <<users, tokens, nextTok, mapVars, locks, nextId, session, scenario, POSTS, histVars>>

\* ------------------------------------------------------------ login_begin --
\* Seeded fault: a user without a passkey is given a default credential.
begin_authentication_passkey_or_default(email, dbOk) ==
  IF CREDENTIAL_STORE[email] # 0 THEN CREDENTIAL_STORE[email]
  ELSE IF ~dbOk THEN -1
  ELSE IF get_passkey(email) = 0 THEN 1 ELSE get_passkey(email)

\* webauthn.rs 88-96: the passkey of the email, from the cache first and from
\* the database otherwise.  0: none, -1: the database failed.
begin_authentication_passkey(email, dbOk) ==
  IF CREDENTIAL_STORE[email] # 0 THEN CREDENTIAL_STORE[email]
  ELSE IF ~dbOk THEN -1
  ELSE get_passkey(email)

\* Lines 190-201 and begin_authentication: validation, the passkey lookup under
\* the read lock of the cache, and the challenge.
login_begin(t) ==
  /\ Accepting(t)
  /\ \E email \in EmailField, dbOk \in Outcome :
       LET payload == [NoReq EXCEPT !.handler = "login_begin", !.email = email] IN
       IF email \notin Emails THEN
         /\ dbOk                     \* not looked at
         /\ Reply(t, [payload EXCEPT !.email = NoEmail], Response(400, EmailError(email)))
         /\ UNCHANGED nextId
       ELSE
         /\ CanLock("CREDENTIAL_STORE", t)
         /\ LET pass_key == begin_authentication_passkey(email, dbOk) IN
              IF pass_key = -1 THEN
                /\ Reply(t, payload, Response(400, "Failed to retrieve passkey from database"))
                /\ UNCHANGED nextId
              ELSE IF pass_key = 0 THEN
                /\ Reply(t, payload, Response(400, "Failed to retrieve passkey"))
                /\ UNCHANGED nextId
              ELSE
                /\ nextId <= MaxIds
                /\ nextId' = nextId + 1
                /\ Goto(t, "lb_insert", payload,
                        [NoLoc EXCEPT !.sid = nextId, !.chal = nextId, !.passkey = pass_key])
  /\ UNCHANGED <<dbVars, mapVars, locks, session, scenario, POSTS, histVars>>

\* Lines 203-217: the state is stored under a fresh identifier and returned.
login_begin_insert(t) ==
  /\ pc[t] = "lb_insert"
  /\ CanLock("AUTHENTICATION_STATES", t)
  /\ AUTHENTICATION_STATES' = [AUTHENTICATION_STATES EXCEPT ![loc[t].sid] =
        [present |-> TRUE, challenge |-> loc[t].chal, cred |-> loc[t].passkey,
         server_challenge |-> loc[t].chal]]
  /\ ceremony' = [ceremony EXCEPT ![loc[t].sid] =
        [NoCeremony EXCEPT !.kind = "authentication", !.email = req[t].email,
                           !.challenge = loc[t].chal]]
  /\ Reply(t, req[t], [Response(200, "publicKey") EXCEPT !.sid = loc[t].sid,
                                                           !.chal = loc[t].chal])
  /\ UNCHANGED <<dbVars, REGISTRATION_STATES, CREDENTIAL_STORE, locks, nextId, session,
                 scenario, POSTS, tokenLog>>

\* --------------------------------------------------------- login_complete --
LoginForms == {"ok", "no_response", "no_state_id", "bad_response"}

\* Seeded fault: one map serves both ceremonies, so the lookup also finds the
\* states of registrations.
authentication_state_shared_store(state_id) ==
  IF AUTHENTICATION_STATES[state_id].present THEN AUTHENTICATION_STATES[state_id]
  ELSE [present |-> REGISTRATION_STATES[state_id].present,
        challenge |-> REGISTRATION_STATES[state_id].challenge,
        cred |-> 0,
        server_challenge |-> REGISTRATION_STATES[state_id].challenge]

\* Line 237: the state login_complete finds under state_id; it looks in
\* AUTHENTICATION_STATES only.
authentication_state(state_id) ==
  AUTHENTICATION_STATES[state_id]

\* HashMap::remove on the authentication map: the entry is gone afterwards.
remove_authentication_state(states, state_id) ==
  [states EXCEPT ![state_id] = NoAuthState]

\* Seeded fault: only the signing credential is checked, not the challenge.
complete_authentication_any_challenge(response, state, server_challenge) ==
  response.key = state.cred

\* webauthn.rs 115-125: the assertion is checked against the stored state;
\* server_challenge is passed in and not looked at.
complete_authentication(response, state, server_challenge) ==
  finish_passkey_authentication(response, state)

\* Lines 224-242: parsing, then lookup and removal under the write lock of the
\* authentication map, which stays held.
login_complete(t) ==
  /\ Accepting(t)
  /\ \E form \in FormField(LoginForms), state_id \in Ids, challenge \in Ids, key \in Ids :
       IF form # "ok" THEN
         /\ state_id = 1 /\ challenge = 1 /\ key = 1     \* not looked at
         /\ Reply(t, [NoReq EXCEPT !.handler = "login_complete"],
                  Response(400, FormError(form)))
         /\ UNCHANGED <<AUTHENTICATION_STATES, locks, ceremony>>
       ELSE
       LET payload == [NoReq EXCEPT !.handler = "login_complete", !.sid = state_id,
                                    !.chal = challenge, !.key = key]
           stored_state == authentication_state(state_id)
       IN
         /\ CanLock("AUTHENTICATION_STATES", t)
         /\ IF stored_state.present THEN
              /\ AUTHENTICATION_STATES' =
                   remove_authentication_state(AUTHENTICATION_STATES, state_id)
              /\ locks' = [locks EXCEPT !["AUTHENTICATION_STATES"] = t]
              /\ ceremony' = [ceremony EXCEPT ![state_id].taken = Cap(@ + 1)]
              /\ Goto(t, "lc_verify", payload,
                      [NoLoc EXCEPT !.sid = state_id, !.chal = stored_state.challenge,
                                    !.passkey = stored_state.cred])
            ELSE
              /\ Reply(t, payload, Response(400, "Invalid or expired authentication state"))
              /\ UNCHANGED <<AUTHENTICATION_STATES, locks, ceremony>>
  /\ UNCHANGED <<dbVars, REGISTRATION_STATES, CREDENTIAL_STORE, nextId, session, scenario, POSTS,
                 tokenLog>>

\* Lines 244-253: verification, still under the write lock, and the redirect.
login_complete_verify(t) ==
  /\ pc[t] = "lc_verify"
  /\ IF complete_authentication([challenge |-> req[t].chal, key |-> req[t].key],
                                [challenge |-> loc[t].chal, cred |-> loc[t].passkey],
                                loc[t].chal)
       THEN /\ Reply(t, req[t], Response(303, "/home"))
            /\ ceremony' = [ceremony EXCEPT ![loc[t].sid].completed = Cap(@ + 1)]
       ELSE /\ Reply(t, req[t], Response(401, "Failed to finish authentication"))
            /\ UNCHANGED ceremony
  /\ locks' = [locks EXCEPT !["AUTHENTICATION_STATES"] = Free]
  /\ UNCHANGED <<dbVars, mapVars, nextId, session, scenario, POSTS, tokenLog>>

\* ------------------------------------------------------------ token routes --
\* token::consume(token): the email the token was generated for, once.
consume(token) ==
  IF token \in Tokens THEN tokens[token] ELSE NoEmail

\* Seeded fault: the arms of the outer match are swapped for a failed consume.
validate_account_redirect_always_login(email, verifyOk) ==
  IF email = NoEmail \/ verifyOk THEN "/login?validated=true"
  ELSE "/register?error=validation_failed"

\* The redirect of validate_account, from the results of consume and verify.
validate_account_redirect(email, verifyOk) ==
  IF email = NoEmail THEN "/register?error=invalid_token"
  ELSE IF verifyOk THEN "/login?validated=true"
  ELSE "/register?error=validation_failed"

\* The page reset_account redirects to, from the result of consume.
reset_account_redirect(email) ==
  IF email = NoEmail THEN "/register?error=recovery_failed"
  ELSE "/register?reset_mode=true&success=true"

\* The token is gone from the store once consumed.
Consumed(token, email) ==
  IF email = NoEmail THEN UNCHANGED <<tokens, tokenLog>>
  ELSE /\ tokens' = [tokens EXCEPT ![token] = NoEmail]
       /\ tokenLog' = [tokenLog EXCEPT ![token].consumed = Cap(@ + 1)]

\* Seeded fault: the Err arm of consume verifies as well.
validate_account_users_any_token(email, verifyOk) ==
  IF email = NoEmail
    THEN [e \in Emails |-> [users[e] EXCEPT !.verified = users[e].exists]]
    ELSE IF verifyOk /\ users[email].exists THEN verify(users, email) ELSE users

\* Lines 262-263: user::verify is called in the Ok(email) arm of consume only,
\* for the email consume returned.
validate_account_users(email, verifyOk) ==
  IF email # NoEmail /\ verifyOk /\ users[email].exists
    THEN verify(users, email) ELSE users

\* Lines 261-269.  Token 0 stands for a string no token was ever generated as.
validate_account(t) ==
  /\ Accepting(t)
  /\ \E token \in Tokens \cup {0}, verifyOk \in Outcome :
       LET email == consume(token)
           ok == verifyOk /\ email # NoEmail /\ users[email].exists
       IN
       /\ Consumed(token, email)
       /\ users' = validate_account_users(email, verifyOk)
       /\ Reply(t, [NoReq EXCEPT !.handler = "validate_account", !.token = token],
                [Response(303, validate_account_redirect(email, ok)) EXCEPT !.email = email])
  /\ UNCHANGED <<nextTok, mapVars, locks, nextId, session, scenario, POSTS, ceremony>>

\* Lines 324-341.
reset_account(t) ==
  /\ Accepting(t)
  /\ \E token \in Tokens \cup {0} :
       LET email == consume(token) IN
       /\ Consumed(token, email)
       /\ Reply(t, [NoReq EXCEPT !.handler = "reset_account", !.token = token],
                [Response(200, reset_account_redirect(email)) EXCEPT !.email = email])
  /\ UNCHANGED <<users, nextTok, mapVars, locks, nextId, session, scenario, POSTS, ceremony>>

\* -------------------------------------------------------- recover_account --
RecoverMessage == "Si ce mail exist, un message de recuperation a ete envoye"

\* Lines 275-300: the existence check and, for an existing user, the token.
recover_account(t) ==
  /\ Accepting(t)
  /\ \E email \in EmailField,
        fault \in (IF scenario.faults THEN {"none", "exists", "generate", "render"}
                                      ELSE {"none"}) :
       LET payload == [NoReq EXCEPT !.handler = "recover_account", !.email = email]
           user_exists == exists(email, fault # "exists")
           genOk == fault # "generate"
           renderOk == fault # "render"
       IN
       IF email = Missing THEN
         /\ Reply(t, payload, Response(400, "Email is required"))
         /\ UNCHANGED <<tokens, nextTok, tokenLog>>
       ELSE IF user_exists = "Err" THEN
         /\ Reply(t, payload, Response(500, "Something went wrong"))
         /\ UNCHANGED <<tokens, nextTok, tokenLog>>
       ELSE IF user_exists = "Ok(true)" THEN
         IF genOk THEN
           /\ generate(email)
           /\ Goto(t, "rec_mail", payload, [NoLoc EXCEPT !.token = nextTok])
         ELSE
           /\ Reply(t, payload, Response(500, "Failed to generate token"))
           /\ UNCHANGED <<tokens, nextTok, tokenLog>>
       ELSE
         /\ Reply(t, payload, IF renderOk THEN Response(200, "")
                                          ELSE Response(500, "Internal server error."))
         /\ UNCHANGED <<tokens, nextTok, tokenLog>>
  /\ UNCHANGED <<users, mapVars, locks, nextId, session, scenario, POSTS, ceremony>>

\* Lines 302-320: the recovery mail, then the page.
recover_account_mail(t) ==
  /\ pc[t] = "rec_mail"
  /\ \E mailOk \in Outcome, renderOk \in Outcome :
       LET sent(r) == [r EXCEPT !.token = loc[t].token, !.mailed = mailOk] IN
       IF ~mailOk THEN
         Reply(t, req[t], sent(Response(500, "Failed to send email")))
       ELSE
         Reply(t, req[t], sent(IF renderOk THEN Response(200, RecoverMessage)
                                           ELSE Response(500, "Internal server error.")))
  /\ UNCHANGED <<users, tokens, nextTok, mapVars, locks, nextId, session, scenario, POSTS, histVars>>

\* ------------------------------------------------- posts (handlers_auth) --
\* The multipart form of create_post, by the first check that refuses it.
PostForms == {"ok", "bad_text", "bad_file_type", "not_jpg", "bad_image", "too_large",
              "no_text"}

PostFormError(form) ==
  CASE form = "bad_text" -> "Text must be between 1 and 200 characters"
    [] form = "bad_file_type" -> "Invalid file type"
    [] form = "not_jpg" -> "Only .jpg files are allowed"
    [] form = "bad_image" -> "Invalid image file"
    [] form = "too_large" -> "Image is too large. Max 500x500 pixels and 10MB"
    [] OTHER -> "Text content is required"

\* Which file-system call of the upload fails, if any.
UploadFaults ==
  IF scenario.faults THEN {"none", "create_dir_all", "File::create", "write_all"}
                     ELSE {"none"}

UploadError(fault) ==
  CASE fault = "create_dir_all" -> "Failed to create upload directory"
    [] fault = "File::create" -> "Failed to create file"
    [] OTHER -> "Failed to write file"

\* The identifier of the next post: posts are numbered as they are pushed.
NewPostId == Cardinality({p \in PostIds : POSTS[p].present}) + 1

\* save_post: a post with a fresh identifier and likes 0 is pushed; a failure
\* of save_posts_to_file is only logged.
save_post(posts, post_id) ==
  [posts EXCEPT ![post_id] = [present |-> TRUE, likes |-> 0]]

\* Lines 57-111.
create_post(t) ==
  /\ Accepting(t)
  /\ \E form \in FormField(PostForms), fault \in UploadFaults :
       LET payload == [NoReq EXCEPT !.handler = "create_post"] IN
       IF form \notin {"ok", "no_text"} THEN
         /\ fault = "none"            \* the upload is not reached
         /\ Reply(t, payload, Response(400, PostFormError(form)))
         /\ UNCHANGED POSTS
       ELSE IF fault # "none" THEN
         /\ Reply(t, payload, Response(500, UploadError(fault)))
         /\ UNCHANGED POSTS
       ELSE IF form = "no_text" THEN
         /\ Reply(t, payload, Response(400, PostFormError(form)))
         /\ UNCHANGED POSTS
       ELSE
         /\ NewPostId <= MaxPosts
         /\ POSTS' = save_post(POSTS, NewPostId)
         /\ Reply(t, payload, [Response(200, "post_id") EXCEPT !.post_id = NewPostId])
  /\ UNCHANGED <<dbVars, mapVars, locks, nextId, session, scenario, histVars>>

\* The JSON body of like_post, by the first check that refuses it.
LikeForms == {"ok", "no_post_id", "bad_post_id", "no_action"}

LikeFormError(form) ==
  CASE form = "no_post_id" -> "Post ID is required"
    [] form = "bad_post_id" -> "Invalid Post ID"
    [] OTHER -> "Action is required"

\* The values of the "action" field.
Actions == {"like", "dislike", "love"}

\* Seeded fault: the reaction is counted instead of toggled.
like_post_likes_counted(likes, action) ==
  IF action = "like" THEN likes + 1 ELSE likes - 1

\* Lines 183-197: the new reaction value of a post for "like" and "dislike".
like_post_likes(likes, action) ==
  IF action = "like"
    THEN (IF likes = 1 THEN 0 ELSE 1)
    ELSE (IF likes = -1 THEN 0 ELSE -1)

\* Lines 167-204.  Post 0 stands for a uuid no post was created with.
like_post(t) ==
  /\ Accepting(t)
  /\ \E form \in FormField(LikeForms), post_id \in PostIds \cup {0}, action \in Actions :
       IF form # "ok" THEN
         /\ post_id = 0 /\ action = "like"       \* not looked at
         /\ Reply(t, [NoReq EXCEPT !.handler = "like_post"],
                  Response(400, LikeFormError(form)))
         /\ UNCHANGED POSTS
       ELSE
       LET payload == [NoReq EXCEPT !.handler = "like_post", !.post_id = post_id,
                                    !.action = action]
       IN
       IF post_id \in PostIds /\ POSTS[post_id].present THEN
         IF action \in {"like", "dislike"} THEN
           /\ POSTS' = [POSTS EXCEPT ![post_id].likes = like_post_likes(@, action)]
           /\ Reply(t, payload, Response(200, "OK"))
         ELSE
           /\ Reply(t, payload, Response(400, "Invalid action"))
           /\ UNCHANGED POSTS
       ELSE
         /\ Reply(t, payload, Response(404, "Post not found"))
         /\ UNCHANGED POSTS
  /\ UNCHANGED <<dbVars, mapVars, locks, nextId, session, scenario, histVars>>

\* ------------------------------------------------------------ the system --
InitStores ==
  /\ users = [e \in Emails |-> NoUser]
  /\ tokens = [k \in Tokens |-> NoEmail]
  /\ nextTok = 1
  /\ REGISTRATION_STATES = [i \in Ids |-> NoRegState]
  /\ AUTHENTICATION_STATES = [i \in Ids |-> NoAuthState]
  /\ CREDENTIAL_STORE = [e \in Emails |-> 0]
  /\ locks = [l \in {"REGISTRATION_STATES", "AUTHENTICATION_STATES", "CREDENTIAL_STORE"}
                |-> Free]
  /\ nextId = 1
  /\ session = {}
  /\ POSTS = [p \in PostIds |-> NoPost]
  /\ pc = [t \in Tasks |-> "idle"]
  /\ req = [t \in Tasks |-> NoReq]
  /\ loc = [t \in Tasks |-> NoLoc]
  /\ res = [t \in Tasks |-> NoRes]
  /\ ceremony = [i \in Ids |-> NoCeremony]
  /\ tokenLog = [k \in Tokens |-> NoTokenLog]

\* One request at a time, from one address; any call may fail and any payload
\* may be malformed.
Init ==
  /\ InitStores
  /\ scenario = [tasks |-> {"t1"}, emails |-> {"a"}, faults |-> TRUE, malformed |-> TRUE]

\* One request at a time, and no call fails.
InitReliable ==
  /\ InitStores
  /\ scenario = [tasks |-> {"t1"}, emails |-> {"a"}, faults |-> FALSE, malformed |-> TRUE]

\* Two requests in flight, well-formed, and no call fails.
InitConcurrent ==
  /\ InitStores
  /\ scenario = [tasks |-> Tasks, emails |-> {"a"}, faults |-> FALSE, malformed |-> FALSE]

\* One request at a time from either of two addresses, well-formed, and no
\* call fails.
InitTwoUsers ==
  /\ InitStores
  /\ scenario = [tasks |-> {"t1"}, emails |-> Emails, faults |-> FALSE, malformed |-> FALSE]

\* The response of a finished request is delivered and the task is free again.
respond(t) ==
  /\ pc[t] = "done"
  /\ pc' = [pc EXCEPT ![t] = "idle"]
  /\ req' = [req EXCEPT ![t] = NoReq]
  /\ res' = [res EXCEPT ![t] = NoRes]
  /\ UNCHANGED <<dbVars, mapVars, locks, nextId, session, scenario, POSTS, loc, histVars>>

Next ==
  \E t \in Tasks :
    \/ register_begin(t)
    \/ register_begin_cache(t)
    \/ register_complete(t)
    \/ register_complete_remove(t)
    \/ register_complete_verify(t)
    \/ register_complete_store(t)
    \/ register_complete_mail(t)
    \/ login_begin(t)
    \/ login_begin_insert(t)
    \/ login_complete(t)
    \/ login_complete_verify(t)
    \/ validate_account(t)
    \/ reset_account(t)
    \/ recover_account(t)
    \/ recover_account_mail(t)
    \/ respond(t)

Spec == Init /\ [][Next]_vars

SpecReliable == InitReliable /\ [][Next]_vars

SpecConcurrent == InitConcurrent /\ [][Next]_vars

SpecTwoUsers == InitTwoUsers /\ [][Next]_vars

\* The routes of handlers_auth: posts are created and reacted to.
NextPosts ==
  \E t \in Tasks :
    \/ create_post(t)
    \/ like_post(t)
    \/ respond(t)

SpecPosts == Init /\ [][NextPosts]_vars

\* ================================================================ claims ==
Done(t, handler) == pc[t] = "done" /\ req[t].handler = handler

\* Task t starts a request of `handler` in this step.
Starts(t, handler) == pc[t] = "idle" /\ pc'[t] # "idle" /\ req'[t].handler = handler

\* task t's register_begin was refused: an error and neither challenge nor state id.
BeginRefused(t) ==
  /\ pc[t] = "done"
  /\ res[t].status = 400
  /\ res[t].sid = 0
  /\ res[t].chal = 0

\* C1: register_begin with reset_mode = true for an email that is not
\* registered is rejected: it answers with an error and no challenge, and the
\* registration store gets no entry for it.
C1_ResetBeginUnregisteredRejected ==
  /\ \A t \in Tasks :
       (/\ pc[t] # "idle"
        /\ req[t].handler = "register_begin"
        /\ req[t].email \in Emails
        /\ req[t].reset
        /\ ~users[req[t].email].exists) => BeginRefused(t)
  /\ \A i \in Ids :
       (REGISTRATION_STATES[i].present /\ ceremony[i].reset)
         => users[ceremony[i].email].exists

\* C2: register_begin with reset_mode = false (or absent) for an email that is
\* already registered is rejected in its first step: 400, no challenge, no state
\* id, and the registration store and the credential cache stay as they were.
C2_NewBeginRegisteredRejected ==
  [][\A t \in Tasks :
       (/\ Starts(t, "register_begin")
        /\ req'[t].email \in Emails
        /\ ~req'[t].reset
        /\ users[req'[t].email].exists)
       => /\ pc'[t] = "done"
          /\ res'[t].status = 400
          /\ res'[t].msg = "Invalid registration request"
          /\ res'[t].sid = 0 /\ res'[t].chal = 0
          /\ UNCHANGED <<REGISTRATION_STATES, CREDENTIAL_STORE, nextId>>]_vars

C2_Witness ==
  \E t \in Tasks :
    /\ Done(t, "register_begin")
    /\ req[t].email \in Emails
    /\ ~req[t].reset
    /\ users[req[t].email].exists
    /\ users[req[t].email].passkey # 0
    /\ res[t].msg = "Invalid registration request"

\* The register_complete of task t names a registration ceremony and carries
\* the email it was begun for and an attestation of the challenge it issued.
Faithful(t) ==
  /\ req[t].sid \in Ids
  /\ ceremony[req[t].sid].kind = "registration"
  /\ req[t].email = ceremony[req[t].sid].email
  /\ req[t].chal = ceremony[req[t].sid].challenge

\* C3: after register_begin, register_complete with the returned state id
\* succeeds exactly once: no ceremony is completed twice, and a
\* register_complete that names an already completed ceremony fails with the
\* 400 "Invalid registration session", whatever reset_mode it carries.
C3_SecondCompleteIsSessionError ==
  /\ \A i \in Ids : ceremony[i].completed <= 1
  /\ \A t \in Tasks :
       (/\ Done(t, "register_complete")
        /\ req[t].sid \in Ids
        /\ ceremony[req[t].sid].kind = "registration"
        /\ ceremony[req[t].sid].completed >= 1
        /\ res[t].status # 201)
       => /\ res[t].status = 400
          /\ res[t].msg = "Invalid registration session"

\* Task t is past the lookup of its complete request and got the state of i.
Holds(t, i) ==
  /\ pc[t] \in {"rc_verify", "rc_store", "rc_mail", "lc_verify"}
  /\ loc[t].sid = i

NotFound(response) ==
  /\ response.status = 400
  /\ response.msg \in {"Invalid registration session",
                       "Invalid or expired authentication state"}

\* Task t looks up state id i in this step (register_complete's remove step,
\* login_complete's first step).
LooksUp(t, i) ==
  \/ pc[t] = "rc_remove" /\ pc'[t] # "rc_remove" /\ req[t].sid = i
  \/ Starts(t, "login_complete") /\ req'[t].sid = i

C5_ResetCompletes ==
  \A t \in Tasks :
    (/\ Done(t, "register_complete")
     /\ Faithful(t)
     /\ req[t].reset
     /\ ceremony[req[t].sid].reset
     /\ users[req[t].email].exists
     /\ users[req[t].email].passkey # 0
     /\ (ceremony[req[t].sid].taken = 0 \/ res[t].status = 201))
    => /\ res[t].status = 201
       /\ users[req[t].email].passkey = ceremony[req[t].sid].challenge

\* C6: login_complete never yields the success redirect for an assertion whose
\* challenge is not the one login_begin issued with the referenced state, and
\* when the state is found the answer is the 401 of a failed verification.
C6_WrongChallengeUnauthorized ==
  /\ [](\A t \in Tasks :
          (/\ Done(t, "login_complete")
           /\ req[t].sid \in Ids
           /\ ceremony[req[t].sid].kind = "authentication"
           /\ req[t].chal # ceremony[req[t].sid].challenge)
          => (res[t].status = 401 \/ NotFound(res[t])))
  /\ [][\A t \in Tasks :
          (/\ pc[t] = "lc_verify" /\ pc'[t] # "lc_verify"
           /\ req[t].chal # ceremony[loc[t].sid].challenge)
          => (res'[t].status = 401 /\ res'[t].msg = "Failed to finish authentication")]_vars

\* The assertion is signed by the user's passkey but answers another challenge.
C6_Witness ==
  \E t \in Tasks :
    /\ Done(t, "login_complete")
    /\ req[t].sid \in Ids
    /\ ceremony[req[t].sid].kind = "authentication"
    /\ req[t].chal # ceremony[req[t].sid].challenge
    /\ req[t].key = users[ceremony[req[t].sid].email].passkey
    /\ res[t].status = 401

\* C7: login_begin for an email with no passkey, neither in the database nor
\* in the cache, ends in its first step with a 400 and no challenge or state
\* id, and the authentication store is left as it was.
C7_LoginBeginNeedsCredential ==
  [][\A t \in Tasks :
       (/\ Starts(t, "login_begin")
        /\ req'[t].email \in Emails
        /\ CREDENTIAL_STORE[req'[t].email] = 0
        /\ get_passkey(req'[t].email) = 0)
       => /\ pc'[t] = "done"
          /\ res'[t].status = 400
          /\ res'[t].msg \in {"Failed to retrieve passkey",
                              "Failed to retrieve passkey from database"}
          /\ res'[t].sid = 0 /\ res'[t].chal = 0
          /\ UNCHANGED <<AUTHENTICATION_STATES, nextId>>]_vars

\* An address that was never registered is refused.
C7_Witness ==
  \E t \in Tasks :
    /\ Done(t, "login_begin")
    /\ req[t].email \in Emails
    /\ ~users[req[t].email].exists
    /\ CREDENTIAL_STORE[req[t].email] = 0
    /\ res[t].msg = "Failed to retrieve passkey"

\* C8: a token is consumed exactly once.  The first validate_account or
\* reset_account that carries a token issued for email e resolves to e
\* (validate_account marks e verified and redirects to the login page); every
\* later call with that token, on either route, takes the invalid-token path
\* and changes nothing.
C8_TokenConsumedOnce ==
  [][\A t \in Tasks, k \in Tokens :
       (/\ Starts(t, "validate_account") \/ Starts(t, "reset_account")
        /\ req'[t].token = k
        /\ tokenLog[k].email # NoEmail)
       => IF tokenLog[k].consumed = 0
            THEN /\ res'[t].email = tokenLog[k].email
                 /\ tokenLog'[k].consumed = 1
                 /\ req'[t].handler = "validate_account"
                      => /\ users'[tokenLog[k].email].verified
                         /\ res'[t].msg = "/login?validated=true"
                 /\ req'[t].handler = "reset_account"
                      => res'[t].msg = "/register?reset_mode=true&success=true"
            ELSE /\ res'[t].email = NoEmail
                 /\ tokenLog'[k].consumed = 1
                 /\ res'[t].msg \in {"/register?error=invalid_token",
                                     "/register?error=recovery_failed"}
                 /\ UNCHANGED users]_vars

\* validate_account is called with a token that was consumed before.
C8_Witness ==
  \E t \in Tasks, k \in Tokens :
    /\ Done(t, "validate_account")
    /\ req[t].token = k
    /\ tokenLog[k].consumed = 1
    /\ res[t].msg = "/register?error=invalid_token"

\* C9: a login_complete that yields the success redirect has established an
\* authenticated session for the user of the ceremony, and a session exists
\* only for users with a successfully completed login.
C9_LoginEstablishesSession ==
  /\ \A t \in Tasks :
       (Done(t, "login_complete") /\ res[t].status = 303)
         => ceremony[req[t].sid].email \in session
  /\ \A e \in session :
       \E i \in Ids : /\ ceremony[i].kind = "authentication"
                      /\ ceremony[i].email = e
                      /\ ceremony[i].completed >= 1

\* C10: register_complete persists the credential before it removes the
\* ceremony state: while a request still has to verify or persist the
\* credential of a ceremony, the state is in the store, and a request that
\* failed to persist has left the state in the store.
C10_PersistBeforeCleanup ==
  \A t \in Tasks :
    /\ pc[t] \in {"rc_verify", "rc_store"} => REGISTRATION_STATES[loc[t].sid].present
    /\ (Done(t, "register_complete") /\ res[t].msg = "Failed to set passkey for user")
         => REGISTRATION_STATES[req[t].sid].present

\* C11: no request verifies a response or sends a mail while it holds a shared
\* lock: a task inside a verification step (registration or authentication) or
\* a mail step holds none of the three RwLocks.
C11_NoLockWhileVerifyingOrMailing ==
  \A t \in Tasks :
    pc[t] \in {"rc_verify", "lc_verify", "rc_mail", "rec_mail"}
      => \A l \in DOMAIN locks : locks[l] # t

\* No request is between two steps of a handler.
Quiescent == \A t \in Tasks : pc[t] \in {"idle", "done"}

\* C12: every existing user has a stored credential: once no request is in
\* progress, no user record exists without a passkey, whatever register_begin
\* and register_complete calls, successful or failing, came before.
C12_OneCredentialPerUser ==
  Quiescent => \A e \in Emails : users[e].exists => users[e].passkey # 0

\* C13: a mail-send failure never surfaces to the caller of the recovery flow:
\* a recover_account for an existing user, for which a token was generated and
\* the mail handed to send_mail, answers with the recovery page whether or not
\* send_mail took the mail, unless rendering the page itself failed.
C13_RecoveryMailFailureHidden ==
  \A t \in Tasks :
    (/\ Done(t, "recover_account")
     /\ res[t].token # 0
     /\ res[t].msg # "Internal server error.")
    => /\ res[t].status = 200
       /\ res[t].msg = RecoverMessage

\* C14: once register_complete has found its state, verified the response and
\* persisted the passkey, it answers 201 Created whether or not a token could
\* be generated and whether or not the mail could be sent, and the user and
\* the stored credential are those written before the token was asked for.
C14_CreatedDespiteTokenOrMailFailure ==
  [][\A t \in Tasks :
       /\ (/\ pc[t] = "rc_store" /\ pc'[t] # "rc_store"
           /\ users'[req[t].email].passkey = loc[t].passkey)
          => /\ users' = set_passkey(users, req[t].email, loc[t].passkey)
             /\ CREDENTIAL_STORE'[req[t].email] = loc[t].passkey
             /\ \/ pc'[t] = "rc_mail"
                \/ pc'[t] = "done" /\ res'[t].status = 201
       /\ (pc[t] = "rc_mail" /\ pc'[t] # "rc_mail")
          => /\ pc'[t] = "done" /\ res'[t].status = 201
             /\ UNCHANGED <<users, CREDENTIAL_STORE>>]_vars

\* A registration answered 201 although the mailer refused the mail.
C14_Witness ==
  \E t \in Tasks :
    /\ Done(t, "register_complete")
    /\ res[t].status = 201
    /\ res[t].token # 0
    /\ ~res[t].mailed
    /\ users[req[t].email].passkey = req[t].chal

\* C15: register_complete issues a verification token and hands a verification
\* mail to the mailer only for a new-account registration: no request in reset
\* mode is at the mail step or has answered with a token issued.
C15_TokenOnlyForNewAccount ==
  \A t \in Tasks :
    (\/ pc[t] = "rc_mail"
     \/ Done(t, "register_complete") /\ res[t].token # 0)
    => ~req[t].reset

\* The email for which the ceremony that created `passkey` was begun.
BegunFor(passkey) == ceremony[passkey].email

\* C16: a credential is stored only for the email its ceremony was begun for:
\* the persisted passkey and the cached passkey of every email come from a
\* ceremony that register_begin started for that same email.
C16_CredentialOnlyForBeginEmail ==
  \A e \in Emails :
    /\ users[e].passkey # 0 => BegunFor(users[e].passkey) = e
    /\ CREDENTIAL_STORE[e] # 0 => BegunFor(CREDENTIAL_STORE[e]) = e

\* The register_complete of task t failed at the state lookup or at the
\* verification of the response.
CeremonyFailed(t) ==
  /\ Done(t, "register_complete")
  /\ res[t].status = 400
  /\ res[t].msg \in {"Invalid registration session", "Failed to end registration"}

\* C17: a register_complete that fails at the state lookup or at verification
\* leaves the user store as it was.  With one request at a time a new-account
\* request gets that far only for an email without a user record, so after
\* the failure there is still no user record for it.
C17_FailedCompleteChangesNothing ==
  \A t \in Tasks :
    (CeremonyFailed(t) /\ ~req[t].reset) => ~users[req[t].email].exists

\* The stored credential of e was replaced: two registration ceremonies begun
\* for e were completed, the later one over the credential of the earlier.
Replaced(e) ==
  \E i, j \in Ids :
    /\ i # j
    /\ ceremony[i].kind = "registration" /\ ceremony[i].email = e
    /\ ceremony[j].kind = "registration" /\ ceremony[j].email = e
    /\ ceremony[i].completed >= 1 /\ ceremony[j].completed >= 1

\* A token issued for e was consumed.
TokenConsumedFor(e) ==
  \E k \in Tokens : tokenLog[k].email = e /\ tokenLog[k].consumed >= 1

\* C18: the stored credential of an existing user is replaced only after a
\* token issued for that email was consumed: without a consumed token no
\* sequence of register_begin and register_complete calls completes a second
\* registration for the email.
C18_ReplaceOnlyAfterRecovery ==
  \A e \in Emails : Replaced(e) => TokenConsumedFor(e)

\* No register_complete is in progress for email e.
NoCompletionInProgress(e) ==
  \A t \in Tasks :
    pc[t] \in {"rc_remove", "rc_verify", "rc_store", "rc_mail"} => req[t].email # e

\* C19: the credential cache is never a second source of truth: while no
\* registration completion is in progress for an email, a cache entry for it
\* equals the persisted passkey of the user, so login_begin, which reads the
\* cache first, issues challenges only for persisted credentials.
C19_CacheAgreesWithStore ==
  \A e \in Emails :
    (NoCompletionInProgress(e) /\ CREDENTIAL_STORE[e] # 0)
      => (users[e].exists /\ users[e].passkey = CREDENTIAL_STORE[e])

\* C20: the two state stores are independent.  An identifier is a key of the
\* registration map only if register_begin issued it and of the authentication
\* map only if login_begin issued it; a complete handler works on a state of
\* its own kind only, so an identifier of the other kind is never accepted;
\* and the lookup of one handler leaves the other map as it was.
C20_StoresIndependent ==
  /\ [](\A i \in Ids :
          /\ REGISTRATION_STATES[i].present => ceremony[i].kind = "registration"
          /\ AUTHENTICATION_STATES[i].present => ceremony[i].kind = "authentication")
  /\ [](\A t \in Tasks :
          /\ pc[t] \in {"rc_verify", "rc_store", "rc_mail"}
               => ceremony[loc[t].sid].kind = "registration"
          /\ pc[t] = "lc_verify" => ceremony[loc[t].sid].kind = "authentication")
  /\ [][\A t \in Tasks :
          /\ (pc[t] = "rc_remove" /\ pc'[t] # "rc_remove")
               => UNCHANGED AUTHENTICATION_STATES
          /\ (Starts(t, "login_complete") \/ (pc[t] = "lc_verify" /\ pc'[t] # "lc_verify"))
               => UNCHANGED REGISTRATION_STATES]_vars

\* login_complete was called with the identifier of a registration whose state
\* is in the registration map, and answered not-found.
C20_Witness ==
  \E t \in Tasks :
    /\ Done(t, "login_complete")
    /\ req[t].sid \in Ids
    /\ ceremony[req[t].sid].kind = "registration"
    /\ REGISTRATION_STATES[req[t].sid].present
    /\ NotFound(res[t])

\* C21: the verification flag becomes true only through validate_account
\* consuming a token issued for the user's email: a verified user exists and a
\* token of theirs was consumed; a user record is created unverified; and the
\* flag is set only in a validate_account step that consumes, for the first
\* time, a token issued for that email.
C21_VerifiedOnlyByToken ==
  /\ [](\A e \in Emails :
          users[e].verified => (users[e].exists /\ TokenConsumedFor(e)))
  /\ [][\A e \in Emails :
          /\ (~users[e].exists /\ users'[e].exists) => ~users'[e].verified
          /\ (~users[e].verified /\ users'[e].verified)
               => \E t \in Tasks, k \in Tokens :
                    /\ Starts(t, "validate_account")
                    /\ req'[t].token = k
                    /\ tokenLog[k].email = e
                    /\ tokenLog[k].consumed = 0
                    /\ tokenLog'[k].consumed = 1]_vars

\* validate_account resolved a token to a user and that user is now verified.
C21_Witness ==
  \E t \in Tasks :
    /\ Done(t, "validate_account")
    /\ res[t].email \in Emails
    /\ res[t].msg = "/login?validated=true"
    /\ users[res[t].email].verified

\* What the caller of a request observes: the status and the rendered message.
Observed(t) == <<res[t].status, res[t].msg>>

\* C22: recover_account does not disclose whether an email is registered: two
\* answered recover_account requests for the same address, one made while the
\* address had no user and one while it had, show the caller the same status
\* and message; and a recovery token was issued only for an existing user.
C22_RecoveryDoesNotDisclose ==
  /\ \A t1, t2 \in Tasks :
       (/\ Done(t1, "recover_account") /\ Done(t2, "recover_account")
        /\ req[t1].email \in Emails
        /\ req[t1].email = req[t2].email)
       => Observed(t1) = Observed(t2)
  /\ \A t \in Tasks :
       (Done(t, "recover_account") /\ res[t].token # 0)
         => users[req[t].email].exists

\* C23: like_post toggles the reaction of a post.  "like" sets it to 1 unless
\* it is 1 already, and then to 0; "dislike" sets it to -1 unless it is -1
\* already, and then to 0; no other post changes.  Hence from 0, "like" twice
\* gives 0 and "like" then "dislike" gives -1, and the reaction of every post
\* is always -1, 0 or 1.
C23_LikeToggles ==
  /\ [](/\ \A p \in PostIds : POSTS[p].likes \in {-1, 0, 1}
        /\ like_post_likes(like_post_likes(0, "like"), "like") = 0
        /\ like_post_likes(like_post_likes(0, "like"), "dislike") = -1)
  /\ [][\A t \in Tasks :
          (Starts(t, "like_post") /\ res'[t].status = 200)
          => LET p == req'[t].post_id
                 was == POSTS[p].likes
             IN /\ req'[t].action = "like"
                     => POSTS'[p].likes = (IF was = 1 THEN 0 ELSE 1)
                /\ req'[t].action = "dislike"
                     => POSTS'[p].likes = (IF was = -1 THEN 0 ELSE -1)
                /\ req'[t].action \in {"like", "dislike"}
                /\ \A q \in PostIds \ {p} : POSTS'[q] = POSTS[q]]_vars

\* A "like" on a post that was liked already: the reaction is back at 0.
C23_Witness ==
  \E t \in Tasks :
    /\ Done(t, "like_post")
    /\ res[t].status = 200
    /\ req[t].action = "like"
    /\ POSTS[req[t].post_id].present
    /\ POSTS[req[t].post_id].likes = 0

====
